---- MODULE Spec2Model ----
(***************************************************************************)
(* Model of the Main device-form component                                 *)
(* (src/frontend_react/src/components/Main.jsx).                           *)
(*                                                                         *)
(* JavaScript values are modelled as tagged strings:                       *)
(*   "undefined", "null", "true", "false"   the primitives                 *)
(*   "s:<text>"                             a string ("s:" is '')          *)
(*   "n:<digits>"                           a number                       *)
(*   "fn:<name>"                            a function (by identity)       *)
(*   "obj:<name>"                           an object (by identity)        *)
(* The component owns no device state: `props` is what the host passed to  *)
(* the most recent render, `hooks` is React's per-instance hook memory     *)
(* (useCallback / useMemo), `pending` are handleClickSave invocations      *)
(* suspended at their await, and `last` records the step taken last with   *)
(* the calls it made, in order.                                            *)
(***************************************************************************)
EXTENDS Naturals, Sequences, FiniteSets

VARIABLES props, hooks, pending, last, call

vars == <<props, hooks, pending, last, call>>

\* Largest number of handleClickSave invocations suspended at once.
MaxPending == 2

----------------------------------------------------------------------------
\* JavaScript values

Undefined == "undefined"
Null == "null"
JTrue == "true"
JFalse == "false"
EmptyString == "s:"

\* A default parameter value or a closure created by the current render: a
\* new identity at every render, equal to nothing remembered.
Fresh == "fresh"

\* Boolean(v), !!v and the truthiness test of !, && and ||.
ToBoolean(v) == v \notin {Undefined, Null, JFalse, EmptyString, "n:0"}

\* The JavaScript boolean for a truth value.
JBool(b) == IF b THEN JTrue ELSE JFalse

\* typeof v === 'function'
IsFunction(v) == v \in {"fn:h1", "fn:h2", "fn:save", "fn:c1", "fn:noop"}

\* a ?? b
Nullish(a, b) == IF a \in {Undefined, Null} THEN b ELSE a

ASSET_STATUSES == "ASSET_STATUSES"

\* The option lists of the selectOptions objects the host passes; the default
\* parameter value {} has no list for any field.
OptionsOf(selectOptions, fieldName) ==
    IF selectOptions = "obj:o1" /\ fieldName = ASSET_STATUSES
    THEN {"s:ACTIVE", "s:INSTALLED"}
    ELSE {}

----------------------------------------------------------------------------
\* Calls made by a handler

\* One call fn(args...) that either returns or throws.
Invoke(fn, args, threw) == [fn |-> fn, args |-> args, threw |-> threw]

\* Statements run in order until one throws: the calls actually made.
Executed(calls) ==
    LET thrown == {i \in 1..Len(calls) : calls[i].threw}
    IN IF thrown = {} THEN calls
       ELSE SubSeq(calls, 1, CHOOSE i \in thrown : \A j \in thrown : i <= j)

Threw(run) == \E i \in 1..Len(run) : run[i].threw

----------------------------------------------------------------------------
\* Props and their defaults

\* onChange = () => {} when the host passes none.
OnChangeOf(p) == IF p.onChange = Undefined THEN "fn:noop" ELSE p.onChange

\* The identity React compares for a prop with a default value: the default
\* is created anew by every render.
IdOf(v) == IF v = Undefined THEN Fresh ELSE v

\* Object.is over a dependency list, against the list of the previous render.
DepsChanged(prev, next) ==
    \E i \in 1..Len(next) : next[i] = Fresh \/ prev[i] # next[i]

----------------------------------------------------------------------------
\* renderSelect

getDataForSelect(fieldName, options) ==
    [items |-> options.items, disabled |-> JBool(ToBoolean(options.disabled))]

\* The part_000 revision of the rule, which knows no transient flag.
IsNewlyEnabledNoFlag(state) ==
    ToBoolean(state.enabled)
        /\ (~ToBoolean(state.status) \/ state.status = EmptyString)

\* The const isNewlyEnabled of renderSelect.
IsNewlyEnabled(state) ==
    ToBoolean(state.hasJustBeenEnabled)
        \/ (ToBoolean(state.enabled)
              /\ (~ToBoolean(state.status) \/ state.status = EmptyString))

\* A revision that replaces the default computation instead of appending to it.
ComputedDisabledRuleOnly(fieldName, disabled, formDisabled, state) ==
    IF fieldName = ASSET_STATUSES
    THEN IsNewlyEnabled(state)
    ELSE disabled \/ formDisabled

\* The variable computedDisabled of renderSelect.
ComputedDisabled(fieldName, disabled, formDisabled, state) ==
    IF fieldName = ASSET_STATUSES
    THEN disabled \/ formDisabled \/ IsNewlyEnabled(state)
    ELSE disabled \/ formDisabled

\* The <select> element renderSelect returns. p holds what the closure reads
\* from the component scope (state, formDisabled, selectOptions, onChange) and
\* handleStatusChange the callback in scope.
RenderSelect(fieldName, selProps, p, handleStatusChange) ==
    LET base == getDataForSelect(fieldName,
                    [items |-> OptionsOf(p.selectOptions, fieldName),
                     disabled |-> selProps.disabled])
        disabled == ToBoolean(base.disabled)
        value == IF fieldName = ASSET_STATUSES THEN p.state.status
                 ELSE selProps.value
    IN [name |-> fieldName,
        value |-> Nullish(value, EmptyString),
        disabled |-> ComputedDisabled(fieldName, disabled, p.formDisabled, p.state),
        items |-> base.items,
        onChange |-> IF fieldName = ASSET_STATUSES
                     THEN [kind |-> "handleStatusChange", fn |-> handleStatusChange]
                     ELSE [kind |-> "onChange",
                           fn |-> [onStatusChange |-> Undefined,
                                   onChange |-> OnChangeOf(p)]]]

----------------------------------------------------------------------------
\* The callbacks

\* handleStatusChange(newStatus), run with the values its closure captured.
\* t[1], t[2], t[3] tell whether the host's onStatusChange and its two
\* onChange calls throw.
HandleStatusChange(closure, newStatus, t) ==
    LET body ==
            (IF IsFunction(closure.onStatusChange)
             THEN <<Invoke(closure.onStatusChange, <<newStatus>>, t[1])>>
             ELSE <<>>)
            \o <<Invoke(closure.onChange, <<"s:status", newStatus>>, t[2]),
                 Invoke(closure.onChange, <<"s:hasJustBeenEnabled", JFalse>>, t[3])>>
        run == Executed(body)
    IN [effects |-> run,
        outcome |-> IF Threw(run) THEN "rejected" ELSE "fulfilled"]

\* handleClickSave() up to its await: the call of the host's onClickSave.
HandleClickSaveCall(closure, hostThrows) ==
    IF IsFunction(closure.onClickSave)
    THEN [effects |-> <<Invoke(closure.onClickSave, <<>>, hostThrows)>>,
          outcome |-> IF hostThrows THEN "fulfilled" ELSE "pending"]
    ELSE [effects |-> <<>>, outcome |-> "fulfilled"]

\* What the host's save settles to: a value, or a rejection.
Rejected == "rejected"
SaveResults == {JTrue, JFalse, Undefined, "n:1", Rejected}

\* The rest of handleClickSave written without its try/catch.
HandleClickSaveResumeNoCatch(onChange, res, onChangeThrows) ==
    LET run == IF res # Rejected /\ res = JTrue
               THEN <<Invoke(onChange, <<"s:clearHasJustBeenEnabledForAll", JTrue>>,
                             onChangeThrows)>>
               ELSE <<>>
    IN [effects |-> run,
        outcome |-> IF res = Rejected \/ Threw(run) THEN "rejected" ELSE "fulfilled"]

\* The rest of handleClickSave with a truthiness test for res === true.
HandleClickSaveResumeTruthy(onChange, res, onChangeThrows) ==
    LET run == IF res # Rejected /\ ToBoolean(res)
               THEN <<Invoke(onChange, <<"s:clearHasJustBeenEnabledForAll", JTrue>>,
                             onChangeThrows)>>
               ELSE <<>>
    IN [effects |-> run, outcome |-> "fulfilled"]

\* handleClickSave() from its await on, once the host's save has settled to
\* res; a rejection throws at the await. Everything runs inside the try, so
\* the async function's promise is fulfilled whatever happens.
HandleClickSaveResume(onChange, res, onChangeThrows) ==
    LET statusIsSuccess == res # Rejected /\ res = JTrue
        run == IF statusIsSuccess
               THEN <<Invoke(onChange, <<"s:clearHasJustBeenEnabledForAll", JTrue>>,
                             onChangeThrows)>>
               ELSE <<>>
    IN [effects |-> run, outcome |-> "fulfilled"]

\* useCallback(fn, deps): the remembered callback unless a dependency changed.
UseCallback(prev, fn, deps) ==
    IF DepsChanged(prev.deps, deps) THEN [deps |-> deps, fn |-> fn] ELSE prev

----------------------------------------------------------------------------
\* renderDevice

CheckboxDisabled(formDisabled) == formDisabled

\* A Save button that is disabled while a save is in flight.
ButtonDisabledWhileSaving(formDisabled) ==
    formDisabled \/ \E c \in DOMAIN pending : pending[c] > 0

\* A Save button rendered without its disabled attribute.
ButtonNeverDisabled(formDisabled) == FALSE

ButtonDisabled(formDisabled) == formDisabled

\* The markup the useMemo factory builds from the values in scope.
RenderDeviceMarkup(p, handleStatusChange, handleClickSave) ==
    [checkbox |-> [checked |-> ToBoolean(p.state.enabled),
                   onChange |-> OnChangeOf(p),
                   disabled |-> CheckboxDisabled(p.formDisabled)],
     select |-> RenderSelect(ASSET_STATUSES,
                    [value |-> p.state.status, disabled |-> JFalse],
                    p, handleStatusChange),
     button |-> [present |-> IsFunction(p.onClickSave),
                 onClick |-> handleClickSave,
                 disabled |-> ButtonDisabled(p.formDisabled)]]

\* The dependency list of the useMemo. A callback's identity is new exactly
\* when its own dependency list changed, so that list stands for it.
RenderDeviceDeps(p, handleStatusChange, handleClickSave) ==
    <<p.state.enabled, p.state.status, p.state.hasJustBeenEnabled,
      JBool(p.formDisabled), IdOf(p.selectOptions), IdOf(p.onChange),
      p.onClickSave, handleClickSave.deps[1], handleClickSave.deps[2]>>

\* One execution of the function component Main with props p over the hook
\* memory h (unread when mounting, the first render): the new hook memory.
MainRender(p, h, mounting) ==
    LET hscFn == [onStatusChange |-> p.onStatusChange, onChange |-> OnChangeOf(p)]
        hscDeps == <<p.onStatusChange, IdOf(p.onChange)>>
        hcsFn == [onClickSave |-> p.onClickSave, onChange |-> OnChangeOf(p)]
        hcsDeps == <<p.onClickSave, IdOf(p.onChange)>>
        hsc == IF mounting THEN [deps |-> hscDeps, fn |-> hscFn]
               ELSE UseCallback(h.handleStatusChange, hscFn, hscDeps)
        hcs == IF mounting THEN [deps |-> hcsDeps, fn |-> hcsFn]
               ELSE UseCallback(h.handleClickSave, hcsFn, hcsDeps)
        deps == RenderDeviceDeps(p, hsc, hcs)
        fresh == [deps |-> deps, value |-> RenderDeviceMarkup(p, hsc.fn, hcs.fn)]
    IN [handleStatusChange |-> hsc,
        handleClickSave |-> hcs,
        renderDevice |-> IF mounting \/ DepsChanged(h.renderDevice.deps, deps)
                         THEN fresh ELSE h.renderDevice]

\* The markup on screen.
Markup == hooks.renderDevice.value

----------------------------------------------------------------------------
\* The host: the props it may pass

EnabledValues == {Undefined, JTrue, JFalse}
StatusValues == {Undefined, EmptyString, "s:ACTIVE"}
FlagValues == {Undefined, JTrue, JFalse}
StatusHandlers == {Undefined, "fn:h1", "fn:h2"}
SaveHandlers == {Undefined, "fn:save"}
ChangeHandlers == {Undefined, "fn:c1"}
SelectOptions == {Undefined, "obj:o1"}

\* Main rendered without any prop: every parameter takes its default.
DefaultProps ==
    [state |-> [enabled |-> Undefined, status |-> Undefined,
                hasJustBeenEnabled |-> Undefined],
     formDisabled |-> FALSE,
     selectOptions |-> Undefined,
     onChange |-> Undefined,
     onStatusChange |-> Undefined,
     onClickSave |-> Undefined]

\* The props of a re-render: the host changes one of them, or none.
NextProps(p) ==
    {[p EXCEPT !.state.enabled = v] : v \in EnabledValues}
      \cup {[p EXCEPT !.state.status = v] : v \in StatusValues}
      \cup {[p EXCEPT !.state.hasJustBeenEnabled = v] : v \in FlagValues}
      \cup {[p EXCEPT !.formDisabled = v] : v \in BOOLEAN}
      \cup {[p EXCEPT !.selectOptions = v] : v \in SelectOptions}
      \cup {[p EXCEPT !.onChange = v] : v \in ChangeHandlers}
      \cup {[p EXCEPT !.onStatusChange = v] : v \in StatusHandlers}
      \cup {[p EXCEPT !.onClickSave = v] : v \in SaveHandlers}

\* The onChange functions a suspended handleClickSave may have captured.
CapturedOnChange == {"fn:c1", "fn:noop"}

NumPending == pending["fn:c1"] + pending["fn:noop"]

\* renderSelect has not been called on its own.
NoCall == [fieldName |-> "none", returned |-> FALSE]

Step(ev, arg, res, run) ==
    [ev |-> ev, arg |-> arg, res |-> res,
     effects |-> run.effects, outcome |-> run.outcome]

----------------------------------------------------------------------------
\* The component as a state machine

Init ==
    /\ props = DefaultProps
    /\ pending = [c \in CapturedOnChange |-> 0]
    /\ hooks = MainRender(DefaultProps, <<>>, TRUE)
    /\ last = Step("mount", Undefined, Undefined,
                   [effects |-> <<>>, outcome |-> "returned"])
    /\ call = NoCall

\* The host renders Main again.
Render ==
    \E p \in NextProps(props) :
        /\ props' = p
        /\ hooks' = MainRender(p, hooks, FALSE)
        /\ last' = Step("render", Undefined, Undefined,
                        [effects |-> <<>>, outcome |-> "returned"])
        /\ UNCHANGED <<pending, call>>

\* The user clicks the enabled checkbox: its onChange forwards the new value.
ToggleEnabled ==
    /\ ~Markup.checkbox.disabled
    /\ \E threw \in BOOLEAN :
         LET checked == JBool(~Markup.checkbox.checked)
             run == <<Invoke(Markup.checkbox.onChange, <<"s:enabled", checked>>, threw)>>
         IN last' = Step("toggle", checked, Undefined,
                         [effects |-> run,
                          outcome |-> IF threw THEN "threw" ELSE "returned"])
    /\ UNCHANGED <<props, hooks, pending, call>>

\* The user picks another option of the status select: its onChange runs the
\* handleStatusChange the markup holds.
StatusSelect ==
    /\ ~Markup.select.disabled
    /\ \E v \in Markup.select.items \ {Markup.select.value} :
       \E t \in [1..3 -> BOOLEAN] :
         last' = Step("status", v, Undefined,
                      HandleStatusChange(Markup.select.onChange.fn, v, t))
    /\ UNCHANGED <<props, hooks, pending, call>>

\* The user clicks Save: handleClickSave runs up to its await.
SaveClick ==
    /\ Markup.button.present
    /\ ~Markup.button.disabled
    /\ \E hostThrows \in BOOLEAN :
         LET closure == Markup.button.onClick
             run == HandleClickSaveCall(closure, hostThrows)
         IN /\ run.outcome = "pending" => NumPending < MaxPending
            /\ last' = Step("saveClick", Undefined, Undefined, run)
            /\ pending' = IF run.outcome = "pending"
                          THEN [pending EXCEPT ![closure.onChange] = @ + 1]
                          ELSE pending
    /\ UNCHANGED <<props, hooks, call>>

\* The host's save settles and one suspended handleClickSave resumes.
SaveSettle ==
    \E c \in CapturedOnChange :
        /\ pending[c] > 0
        /\ \E res \in SaveResults, threw \in BOOLEAN :
             last' = Step("saveSettle", Undefined, res,
                          HandleClickSaveResume(c, res, threw))
        /\ pending' = [pending EXCEPT ![c] = @ - 1]
        /\ UNCHANGED <<props, hooks, call>>

Next == Render \/ ToggleEnabled \/ StatusSelect \/ SaveClick \/ SaveSettle

Spec == Init /\ [][Next]_vars

----------------------------------------------------------------------------
\* renderSelect called on its own, over every kind of argument

PureFields == {ASSET_STATUSES, "ANTENNA_MODELS"}
PureDisabledValues == {Undefined, JTrue, JFalse, "n:1", EmptyString}
PureEnabledValues == {Undefined, Null, JTrue, JFalse, "n:1", "n:0"}
PureStatusValues == {Undefined, Null, EmptyString, "s:ACTIVE", "s:0"}
PureFlagValues == {Undefined, Null, JTrue, JFalse, "n:1", EmptyString}

\* The arguments of one call, and what renderSelect reads from its scope.
PureCalls ==
    [fieldName : PureFields,
     props : [value : {"s:X"}, disabled : PureDisabledValues],
     state : [enabled : PureEnabledValues, status : PureStatusValues,
              hasJustBeenEnabled : PureFlagValues],
     formDisabled : BOOLEAN,
     returned : {FALSE}]

InitPure ==
    /\ props = DefaultProps
    /\ pending = [c \in CapturedOnChange |-> 0]
    /\ hooks = MainRender(DefaultProps, <<>>, TRUE)
    /\ last = Step("mount", Undefined, Undefined,
                   [effects |-> <<>>, outcome |-> "returned"])
    /\ call \in PureCalls

\* renderSelect runs on the arguments drawn.
CallRenderSelect ==
    /\ call.fieldName # "none"
    /\ ~call.returned
    /\ LET p == [DefaultProps EXCEPT !.state = call.state,
                                     !.formDisabled = call.formDisabled,
                                     !.selectOptions = "obj:o1"]
       IN call' = [fieldName |-> call.fieldName,
                   props |-> call.props,
                   state |-> call.state,
                   formDisabled |-> call.formDisabled,
                   returned |-> TRUE,
                   isNewlyEnabled |-> IsNewlyEnabled(call.state),
                   element |-> RenderSelect(call.fieldName, call.props, p,
                                            hooks.handleStatusChange.fn)]
    /\ UNCHANGED <<props, hooks, pending, last>>

SpecPure == InitPure /\ [][CallRenderSelect]_vars

----------------------------------------------------------------------------
\* Vocabulary of the properties

\* The values of the model's domains that JavaScript takes for true.
Truthy(v) ==
    v \in {JTrue, "n:1", "s:0", "s:ACTIVE", "s:INSTALLED", "s:ok",
           "fn:h1", "fn:h2", "fn:save", "fn:c1", "obj:o1"}

\* A status that is empty or absent.
EmptyOrAbsent(status) == status \in {Undefined, Null, EmptyString}

\* "Newly enabled" as the specification words it.
NewlyEnabledRule(state) ==
    Truthy(state.hasJustBeenEnabled)
        \/ (Truthy(state.enabled) /\ EmptyOrAbsent(state.status))

FlagClear == <<"s:hasJustBeenEnabled", JFalse>>
BulkClear == <<"s:clearHasJustBeenEnabledForAll", JTrue>>

\* The positions in the last step's calls of the calls with these arguments.
CallsWith(args) == {i \in 1..Len(last.effects) : last.effects[i].args = args}

\* The positions of the calls of a host status handler.
StatusHandlerCalls ==
    {i \in 1..Len(last.effects) : last.effects[i].fn \in {"fn:h1", "fn:h2"}}

\* No onChange call of the last step threw.
OnChangeReturned ==
    \A i \in 1..Len(last.effects) :
        last.effects[i].fn \in CapturedOnChange => ~last.effects[i].threw

----------------------------------------------------------------------------
\* C1: for every device state, isNewlyEnabled in renderSelect is true exactly
\* when hasJustBeenEnabled is truthy, or enabled is truthy and status is empty
\* or absent; it is also what disables the status select when nothing else
\* does.
C1_IsNewlyEnabledRule ==
    (call.returned /\ call.fieldName = ASSET_STATUSES) =>
        /\ call.isNewlyEnabled <=> NewlyEnabledRule(call.state)
        /\ (~Truthy(call.props.disabled) /\ ~call.formDisabled)
              => (call.element.disabled <=> NewlyEnabledRule(call.state))

\* Scenario C: the flag alone, with enabled false and a status chosen.
C1_Witness ==
    /\ call.returned
    /\ call.fieldName = ASSET_STATUSES
    /\ call.state = [enabled |-> JFalse, status |-> "s:ACTIVE",
                     hasJustBeenEnabled |-> JTrue]
    /\ call.isNewlyEnabled
    /\ call.element.disabled

\* The truth table of d || f || n, rows <<d, f, n, result>>.
OrTable ==
    {<<FALSE, FALSE, FALSE, FALSE>>, <<FALSE, FALSE, TRUE, TRUE>>,
     <<FALSE, TRUE, FALSE, TRUE>>, <<FALSE, TRUE, TRUE, TRUE>>,
     <<TRUE, FALSE, FALSE, TRUE>>, <<TRUE, FALSE, TRUE, TRUE>>,
     <<TRUE, TRUE, FALSE, TRUE>>, <<TRUE, TRUE, TRUE, TRUE>>}

\* C2: the disabled flag of the status select is baseDisabled OR formDisabled
\* OR isNewlyEnabled in all eight cases, baseDisabled being props.disabled
\* coerced to a boolean.
C2_DisabledIsOrOfThree ==
    (call.returned /\ call.fieldName = ASSET_STATUSES) =>
        <<Truthy(call.props.disabled), call.formDisabled,
          NewlyEnabledRule(call.state), call.element.disabled>> \in OrTable

\* The row where only the caller's props.disabled is set.
C2_Witness ==
    /\ call.returned
    /\ call.fieldName = ASSET_STATUSES
    /\ call.props.disabled = "n:1"
    /\ ~call.formDisabled
    /\ ~call.isNewlyEnabled
    /\ call.element.disabled

\* C3: with a host status handler supplied, one status selection of v calls
\* the host handler with v and then emits the flag clear, in that order, each
\* exactly once.
C3_HostThenClearOnce ==
    (last.ev = "status" /\ IsFunction(props.onStatusChange) /\ OnChangeReturned) =>
        /\ Cardinality(StatusHandlerCalls) = 1
        /\ Cardinality(CallsWith(FlagClear)) = 1
        /\ \A i \in StatusHandlerCalls :
              /\ last.effects[i].fn = props.onStatusChange
              /\ last.effects[i].args = <<last.arg>>
              /\ \A j \in CallsWith(FlagClear) : i < j

\* C4: a status selection always emits the flag clear, also when the host
\* status handler throws and when there is none.
C4_ClearUnconditional ==
    (last.ev = "status" /\ OnChangeReturned) => CallsWith(FlagClear) # {}

\* C5: a save emits the bulk clear exactly when the host's save resolved to
\* the boolean true; on false, another truthy value, a rejection or a thrown
\* exception no signal is emitted at all.
C5_BulkClearIffTrue ==
    /\ last.ev = "saveSettle" =>
          /\ CallsWith(BulkClear) # {} <=> last.res = JTrue
          /\ last.res # JTrue => last.effects = <<>>
          /\ Len(last.effects) <= 1
    /\ last.ev = "saveClick" =>
          \A i \in 1..Len(last.effects) : last.effects[i].fn = "fn:save"

C5_Witness ==
    /\ last.ev = "saveSettle"
    /\ last.res = JTrue
    /\ Len(last.effects) = 1
    /\ last.effects[1].args = BulkClear

\* C6: the save-click wrapper never fails: its promise is never rejected,
\* whether the host's save throws synchronously, rejects or resolves.
C6_SaveWrapperNeverRejects ==
    /\ last.ev = "saveSettle" => last.outcome = "fulfilled"
    /\ last.ev = "saveClick" =>
          /\ last.outcome \in {"fulfilled", "pending"}
          /\ Threw(last.effects) => last.outcome = "fulfilled"

C6_Witness ==
    /\ last.ev = "saveSettle"
    /\ last.res = Rejected
    /\ last.outcome = "fulfilled"

\* C7: while a save is pending nothing is locked: the checkbox, the select
\* and the Save button accept events whenever the props leave them usable,
\* their signals are emitted at once, and a save that settles emits the bulk
\* clear by its own result.
C7_NoLockWhilePending ==
    NumPending > 0 =>
        /\ ~props.formDisabled => ENABLED ToggleEnabled
        /\ (/\ ~props.formDisabled
            /\ ~NewlyEnabledRule(props.state)
            /\ props.selectOptions = "obj:o1")
              => ENABLED StatusSelect
        /\ (~props.formDisabled /\ IsFunction(props.onClickSave))
              => /\ ENABLED SaveClick
                 /\ NumPending < MaxPending
                       => ENABLED (SaveClick /\ pending' # pending)
        /\ ENABLED SaveSettle
        /\ last.ev = "toggle" => Len(last.effects) = 1
        /\ last.ev = "status" => Len(last.effects) >= 1
        /\ last.ev = "saveSettle" =>
              (Len(last.effects) = 1 <=> last.res = JTrue)

\* One of two pending saves settled with true while the other is still
\* pending.
C7_Witness ==
    /\ NumPending >= 1
    /\ last.ev = "saveSettle"
    /\ last.res = JTrue
    /\ CallsWith(BulkClear) # {}

\* C8: a status selection calls the onStatusChange of the most recent render
\* (and none when that render got none).
C8_LatestStatusHandler ==
    last.ev = "status" =>
        /\ \A i \in StatusHandlerCalls : last.effects[i].fn = props.onStatusChange
        /\ IsFunction(props.onStatusChange) => StatusHandlerCalls # {}

\* C9: where isNewlyEnabled is true the status select is disabled and no
\* status selection can happen; while the transient flag is set the only
\* flag-clearing signal is the bulk clear of a save that resolved to true.
C9_NoStatusEventWhileNewlyEnabled ==
    /\ NewlyEnabledRule(props.state) =>
          /\ Markup.select.disabled
          /\ ~ENABLED StatusSelect
          /\ last.ev # "status"
    /\ (/\ Truthy(props.state.hasJustBeenEnabled)
        /\ CallsWith(FlagClear) \cup CallsWith(BulkClear) # {})
          => /\ last.ev = "saveSettle"
             /\ last.res = JTrue
             /\ CallsWith(FlagClear) = {}

C9_Witness ==
    /\ Truthy(props.state.hasJustBeenEnabled)
    /\ Markup.select.disabled
    /\ last.ev = "saveSettle"
    /\ CallsWith(BulkClear) # {}

\* C10: while formDisabled is true the checkbox, the select and the Save
\* button are disabled and no user event happens; only a save that was already
\* pending can still settle.
C10_FormDisabledStopsEvents ==
    props.formDisabled =>
        /\ Markup.checkbox.disabled
        /\ Markup.select.disabled
        /\ Markup.button.disabled
        /\ ~ENABLED ToggleEnabled
        /\ ~ENABLED StatusSelect
        /\ ~ENABLED SaveClick
        /\ last.ev \in {"render", "saveSettle"}

C10_Witness ==
    /\ props.formDisabled
    /\ last.ev = "saveSettle"
    /\ CallsWith(BulkClear) # {}

====
